---------------------------- MODULE Spec2Model ----------------------------
(***************************************************************************)
(* A model of the EPUB image extractor (src/epub2img.py) and of the OCR    *)
(* batch (src/img2text.py).                                                *)
(*                                                                         *)
(* Strings the code takes apart (media types, file names, <img src>        *)
(* values, path names) are sequences of one-character strings, so that     *)
(* startswith, lstrip, split, lower, "in" and Path.suffix are computed the *)
(* way Python computes them.                                               *)
(*                                                                         *)
(* Three specifications share the variables:                               *)
(*   Spec       a run of either batch: process_all_epubs of epub2img.py or *)
(*              main() of img2text.py                                      *)
(*   SpecItem   one call of EPUBImageConverter.extract_images_from_item    *)
(*   SpecPath   create_output_path on one image path                       *)
(***************************************************************************)
EXTENDS Integers, Sequences, FiniteSets

VARIABLES
    pc,           \* position of the running program
    successful,   \* the batch loops' counter of succeeded units
    failed,       \* the batch loops' counter of failed units
    book_images,  \* book.get_items_of_type(ITEM_IMAGE) of the opened EPUB
    written,      \* file names saved into the EPUB's output subfolder
    item,         \* the item handed to extract_images_from_item
    events,       \* what that call did: one record per <img> or image item
    item_error,   \* the call ended in its outer "except Exception" handler
    n_epubs,      \* len(epub_files)
    epub_idx,     \* EPUB files the loop of process_all_epubs has finished
    readable,     \* readable[i]: read_epub returned a book for EPUB file i
    folders,      \* EPUB files whose output subfolder has been created
    n_images,     \* image items of the open book already iterated
    n_others,     \* other items of the open book already iterated
    results,      \* what process_epub / process_image returned, unit by unit
    tree,         \* input_root.rglob('*'), the paths found under input_root
    image_list,   \* the paths of tree that passed the extension filter
    img_idx,      \* images the OCR loop has finished
    texts,        \* the text files under output_root, each partial or complete
    wrote,        \* what the last process_image call left at its output path
    image_path,   \* the path handed to create_output_path
    output_path   \* the path create_output_path returned

vars == <<pc, successful, failed, book_images, written, item, events,
          item_error, n_epubs, epub_idx, readable, folders, n_images,
          n_others, results, tree, image_list, img_idx, texts, wrote,
          image_path, output_path>>

epubVars == <<n_epubs, epub_idx, readable, folders, n_images, n_others>>
countVars == <<successful, failed, results>>
ocrVars == <<tree, image_list, img_idx, texts, wrote, image_path, output_path>>
itemVars == <<book_images, written, item, events, item_error>>

\* Python's None where a string is expected, and the absence of a path or name
None == <<"None">>
NoPath == <<>>
NoName == [id |-> 0, ext |-> <<>>]

(***************************************************************************)
(* Bounds of the model.                                                    *)
(***************************************************************************)
MaxImages == 2        \* image items of a book, for one call (SpecItem)
MaxImgs == 2          \* <img> elements of a markup page, for one call
MaxContainers == 2    \* EPUB files found by find_epubs
MaxBookImages == 1    \* image items of a book in the extraction batch
MaxBookImgs == 1      \* <img> elements of a page in the extraction batch
MaxOthers == 1        \* non-image items of a book in the extraction batch
MaxTree == 2          \* paths found under the OCR input root
MaxStem == 2          \* characters of a file name before its last suffix
MaxDepth == 1         \* directories between input_root and an image

(***************************************************************************)
(* Python's str operations on sequences of characters.                     *)
(***************************************************************************)
UpperCase == <<"A","B","C","D","E","F","G","H","I","J","K","L","M",
               "N","O","P","Q","R","S","T","U","V","W","X","Y","Z">>
LowerCase == <<"a","b","c","d","e","f","g","h","i","j","k","l","m",
               "n","o","p","q","r","s","t","u","v","w","x","y","z">>

ToLower == [c \in {UpperCase[i] : i \in 1..Len(UpperCase)} |->
               LowerCase[CHOOSE i \in 1..Len(UpperCase) : UpperCase[i] = c]]

LowerChar(c) == IF c \in DOMAIN ToLower THEN ToLower[c] ELSE c

\* s.lower()
Lower(s) == [i \in 1..Len(s) |-> LowerChar(s[i])]

\* s.startswith(p)
StartsWith(s, p) == Len(s) >= Len(p) /\ SubSeq(s, 1, Len(p)) = p

\* needle in hay
Contains(hay, needle) ==
    \E i \in 0..(Len(hay) - Len(needle)) :
        SubSeq(hay, i + 1, i + Len(needle)) = needle

\* s.lstrip(chars): drop every leading character that is in chars
RECURSIVE LStrip(_, _)
LStrip(s, chars) ==
    IF s # <<>> /\ Head(s) \in chars THEN LStrip(Tail(s), chars) ELSE s

RECURSIVE RFindFrom(_, _, _)
RFindFrom(s, c, i) ==
    IF i = 0 THEN 0 ELSE IF s[i] = c THEN i ELSE RFindFrom(s, c, i - 1)

\* s.rfind(c) + 1: the 1-based place of the last c in s, 0 when there is none
RFind(s, c) == RFindFrom(s, c, Len(s))

\* s.split(sep)[-1]
SplitLast(s, sep) == SubSeq(s, RFind(s, sep) + 1, Len(s))

RECURSIVE SeqsUpTo(_, _)
\* the sequences over S of length at most n
SeqsUpTo(S, n) ==
    IF n = 0 THEN {<<>>}
    ELSE LET shorter == SeqsUpTo(S, n - 1)
         IN shorter \cup {Append(s, x) : s \in {t \in shorter : Len(t) = n - 1}, x \in S}

(***************************************************************************)
(* epub2img.py: extract_images_from_item.                                  *)
(***************************************************************************)
IMAGE_PREFIX == <<"i","m","a","g","e","/">>
HTTP == <<"h","t","t","p">>
SVG == <<"s","v","g">>
JPG == <<"j","p","g">>
SVG_MEDIA_TYPE == IMAGE_PREFIX \o <<"s","v","g","+","x","m","l">>
XHTML_MEDIA_TYPE ==
    <<"a","p","p","l","i","c","a","t","i","o","n","/","x","h","t","m","l","+","x","m","l">>
CSS_MEDIA_TYPE == <<"t","e","x","t","/","c","s","s">>
ValidExtensions == {<<"j","p","e","g">>, <<"j","p","g">>, <<"p","n","g">>,
                    <<"g","i","f">>}

\* The media types, file names and <img src> values the inputs are drawn from.
ImageMediaTypes == {IMAGE_PREFIX \o <<"p","n","g">>,
                    IMAGE_PREFIX \o <<"P","N","G">>,
                    IMAGE_PREFIX \o <<"w","e","b","p">>,
                    SVG_MEDIA_TYPE}
FileNames == {<<"a">>, <<"h","t","t","p","b">>}
Srcs == {HTTP \o <<"b">>, <<".",".","/","a">>, <<>>}

\* An image item of a book: valid says whether the image codec decodes and
\* saves its payload.
ImageAttrs == [media_type : ImageMediaTypes, file_name : FileNames, valid : BOOLEAN]

\* The image tables of at most n items; an item's place in the table is its
\* id, unique within the book.
ImageTables(n) ==
    UNION {{[i \in 1..k |-> [id |-> i, media_type |-> f[i].media_type,
                             file_name |-> f[i].file_name, valid |-> f[i].valid]] :
            f \in [1..k -> ImageAttrs]} : k \in 0..n}

\* A markup page: the src attributes of its <img> elements, in page order.
Pages(n) == [media_type : {XHTML_MEDIA_TYPE}, srcs : SeqsUpTo(Srcs, n)]

\* An item of another media type, and one whose media_type is None.
OtherItems == {[media_type |-> CSS_MEDIA_TYPE], [media_type |-> None]}

\* ImgExtension without the default: the media-type suffix as it is
MutImgExtension(media_type) == SplitLast(media_type, "/")

\* lines 36, 43-44 and 79, 82-83: the extension of the output file
ImgExtension(media_type) ==
    LET img_extension == SplitLast(media_type, "/")
    IN IF Lower(img_extension) \notin ValidExtensions THEN JPG ELSE img_extension

\* line 39: the test that skips a direct image
IsSvgExtension(media_type) == Lower(SplitLast(media_type, "/")) = SVG

\* lines 46 and 85: output_folder / f"{id}.{img_extension}"
OutputName(id, img_extension) == [id |-> id, ext |-> img_extension]

\* lines 50-51 and 88-89: Image.open(...) and img.save(...) raise or save
SaveImage(image_item) == IF image_item.valid THEN "saved" ELSE "raise"

\* TrySaveImage without its try: the exception leaves the loops
MutTrySaveImage(image_item) == SaveImage(image_item)

\* lines 49-53 and 87-91: the try around them catches and prints
TrySaveImage(image_item) ==
    IF SaveImage(image_item) = "raise" THEN "caught" ELSE "saved"

\* lines 35-53: a direct image
DirectImage(it) ==
    IF IsSvgExtension(it.media_type)
    THEN <<>>
    ELSE <<[img |-> 0, src |-> None, item |-> it.id,
            name |-> OutputName(it.id, ImgExtension(it.media_type)),
            status |-> TrySaveImage(it)]>>

\* lines 68-69: the two left strips
CleanSrc(src) == LStrip(LStrip(src, {".", "/"}), {".", "/"})

\* IsExternal testing for a full URL scheme, which no src of a book's own
\* file called http... has
MutIsExternal(src) == StartsWith(src, HTTP \o <<":","/","/">>)

\* line 64: an external reference
IsExternal(src) == StartsWith(src, HTTP)

RECURSIVE ScanImages(_, _, _, _)
\* lines 72-91: the scan of the book's image items for one cleaned src,
\* from item j on. A status "raise" leaves the loop.
ScanImages(k, src, table, j) ==
    IF j > Len(table) THEN <<>>
    ELSE LET image_item == table[j]
         IN IF ~Contains(image_item.file_name, src)
            THEN ScanImages(k, src, table, j + 1)
            ELSE IF image_item.media_type = SVG_MEDIA_TYPE
            THEN ScanImages(k, src, table, j + 1)
            ELSE LET status == TrySaveImage(image_item)
                     e == [img |-> k, src |-> src, item |-> image_item.id,
                           name |-> OutputName(image_item.id,
                                               ImgExtension(image_item.media_type)),
                           status |-> status]
                 IN IF status = "raise" THEN <<e>>
                    ELSE <<e>> \o ScanImages(k, src, table, j + 1)

Raised(evs) == evs # <<>> /\ evs[Len(evs)].status = "raise"

RECURSIVE MarkupPage(_, _, _)
\* lines 60-91: the loop over the <img> elements of a page, from the k-th on
MarkupPage(srcs, table, k) ==
    IF k > Len(srcs) THEN <<>>
    ELSE LET src == srcs[k]
         IN IF src = <<>> THEN MarkupPage(srcs, table, k + 1)
            ELSE IF IsExternal(src) THEN MarkupPage(srcs, table, k + 1)
            ELSE LET scan == <<[img |-> k, src |-> CleanSrc(src), item |-> 0,
                                name |-> NoName, status |-> "scan"]>>
                             \o ScanImages(k, CleanSrc(src), table, 1)
                 IN IF Raised(scan) THEN scan
                    ELSE scan \o MarkupPage(srcs, table, k + 1)

\* lines 31-94: what the call does, and whether the outer handler ran
ExtractImagesFromItem(it, table) ==
    IF it.media_type = None
    THEN [events |-> <<>>, error |-> TRUE]      \* None.startswith raises
    ELSE IF StartsWith(it.media_type, IMAGE_PREFIX)
    THEN LET evs == DirectImage(it) IN [events |-> evs, error |-> Raised(evs)]
    ELSE IF it.media_type = XHTML_MEDIA_TYPE
    THEN LET evs == MarkupPage(it.srcs, table, 1)
         IN [events |-> evs, error |-> Raised(evs)]
    ELSE [events |-> <<>>, error |-> FALSE]

\* the files a call saved
Saved(evs) == {evs[i].name : i \in {j \in 1..Len(evs) : evs[j].status = "saved"}}

(***************************************************************************)
(* The two batch loops count their units the same way.                     *)
(***************************************************************************)
\* Tally that forgets a failed unit
MutTally(ok, s, f) == IF ok THEN [s |-> s + 1, f |-> f] ELSE [s |-> s, f |-> f]

\* epub2img.py lines 127-130 and img2text.py lines 82-85
Tally(ok, s, f) == IF ok THEN [s |-> s + 1, f |-> f] ELSE [s |-> s, f |-> f + 1]

NoItem == [media_type |-> <<>>]

EpubIdle ==
    /\ n_epubs = 0 /\ epub_idx = 0 /\ readable = <<>> /\ folders = {}
    /\ n_images = 0 /\ n_others = 0

ItemIdle ==
    /\ book_images = <<>> /\ written = {} /\ item = NoItem /\ events = <<>>
    /\ item_error = FALSE

OcrIdle ==
    /\ tree = <<>> /\ image_list = <<>> /\ img_idx = 0 /\ texts = {}
    /\ wrote = "nothing" /\ image_path = NoPath /\ output_path = NoPath

CountIdle == successful = 0 /\ failed = 0 /\ results = <<>>

(***************************************************************************)
(* epub2img.py: process_epub and process_all_epubs.                        *)
(***************************************************************************)
\* The books and pages of the extraction batch.
BookTables == ImageTables(MaxBookImages)
BookPages == Pages(MaxBookImgs)

\* MakeFolder that makes nothing
MutMakeFolder(fs, i) == fs

\* lines 100-101: epub_output_folder.mkdir(exist_ok=True)
MakeFolder(fs, i) == fs \cup {i}

\* OnContainerError without the handler: the exception leaves process_epub
MutOnContainerError == "raise"

\* lines 114-116: an exception of process_epub is caught and False returned
OnContainerError == "return False"

\* lines 118-124: find_epubs found n_epubs files, some of which read_epub
\* cannot read; the counters start at 0
InitEpub ==
    /\ pc = "loop"
    /\ n_epubs \in 0..MaxContainers
    /\ readable \in [1..n_epubs -> BOOLEAN]
    /\ epub_idx = 0 /\ folders = {} /\ n_images = 0 /\ n_others = 0
    /\ ItemIdle /\ OcrIdle /\ CountIdle

\* lines 126-130 with process_epub, lines 98-104 and 114-116, for an EPUB
\* that read_epub raises on
ProcessEpubFails ==
    /\ pc = "loop"
    /\ epub_idx < n_epubs
    /\ ~readable[epub_idx + 1]
    /\ folders' = MakeFolder(folders, epub_idx + 1)
    /\ IF OnContainerError = "return False"
       THEN /\ \E t \in {Tally(FALSE, successful, failed)} :
                  successful' = t.s /\ failed' = t.f
            /\ results' = Append(results, FALSE)
            /\ epub_idx' = epub_idx + 1
            /\ pc' = "loop"
       ELSE /\ pc' = "crashed"
            /\ UNCHANGED <<countVars, epub_idx>>
    /\ book_images' = <<>> /\ written' = {}
    /\ n_images' = 0 /\ n_others' = 0
    /\ UNCHANGED <<item, events, item_error, n_epubs, readable, ocrVars>>

\* process_epub, lines 98-104: the subfolder is made and the book read
ReadEpub ==
    /\ pc = "loop"
    /\ epub_idx < n_epubs
    /\ readable[epub_idx + 1]
    /\ folders' = MakeFolder(folders, epub_idx + 1)
    /\ book_images' \in BookTables
    /\ written' = {}
    /\ n_images' = 0 /\ n_others' = 0
    /\ pc' = "items"
    /\ UNCHANGED <<item, events, item_error, n_epubs, epub_idx, readable,
                   countVars, ocrVars>>

\* process_epub, lines 107-110: book.get_items() yields the book's next
\* item, an image item of the book's table or an item of another kind, and
\* extract_images_from_item is called on it
ProcessItem ==
    /\ pc = "items"
    /\ \E it \in (IF n_images < Len(book_images)
                  THEN {book_images[n_images + 1]} ELSE {})
                 \cup (IF n_others < MaxOthers
                       THEN BookPages \cup OtherItems ELSE {}) :
          /\ written' = written \cup Saved(ExtractImagesFromItem(it, book_images).events)
          /\ IF StartsWith(it.media_type, IMAGE_PREFIX)
             THEN n_images' = n_images + 1 /\ UNCHANGED n_others
             ELSE n_others' = n_others + 1 /\ UNCHANGED n_images
    /\ UNCHANGED <<pc, book_images, item, events, item_error, n_epubs, epub_idx,
                   readable, folders, countVars, ocrVars>>

\* process_epub, line 112, and lines 127-128: every item was handled
ReturnTrue ==
    /\ pc = "items"
    /\ n_images = Len(book_images)
    /\ \E t \in {Tally(TRUE, successful, failed)} :
          successful' = t.s /\ failed' = t.f
    /\ results' = Append(results, TRUE)
    /\ epub_idx' = epub_idx + 1
    /\ pc' = "loop"
    /\ UNCHANGED <<itemVars, n_epubs, readable, folders, n_images, n_others,
                   ocrVars>>

\* lines 132-134: the summary
EpubSummary ==
    /\ pc = "loop"
    /\ epub_idx = n_epubs
    /\ pc' = "done"
    /\ UNCHANGED <<itemVars, epubVars, countVars, ocrVars>>

NextEpub ==
    \/ ProcessEpubFails
    \/ ReadEpub
    \/ ProcessItem
    \/ ReturnTrue
    \/ EpubSummary

(***************************************************************************)
(* SpecItem: process_epub hands the last item of a book, any item of any   *)
(* book, to extract_images_from_item, and returns.                         *)
(***************************************************************************)
\* The books and pages one call is tried on.
ItemTables == ImageTables(MaxImages)
ItemPages == Pages(MaxImgs)

\* the files the direct images before the n+1-th image item left
DirectWrites(table, n) == UNION {Saved(DirectImage(table[i])) : i \in 1..n}

\* process_epub at line 110, in the only EPUB of the run: the book's image
\* items before the last item have been handled
InitItem ==
    /\ pc = "call"
    /\ book_images \in ItemTables
    /\ item \in {book_images[i] : i \in {Len(book_images)} \ {0}}
                \cup ItemPages \cup OtherItems
    /\ written = DirectWrites(book_images,
                              IF StartsWith(item.media_type, IMAGE_PREFIX)
                              THEN Len(book_images) - 1 ELSE Len(book_images))
    /\ events = <<>>
    /\ item_error = FALSE
    /\ n_epubs = 1 /\ readable = <<TRUE>> /\ epub_idx = 0 /\ folders = {1}
    /\ n_images = Len(book_images)
    /\ n_others = IF StartsWith(item.media_type, IMAGE_PREFIX) THEN 0 ELSE 1
    /\ OcrIdle /\ CountIdle

\* process_epub, line 110: self.extract_images_from_item(item, book, folder)
CallExtract ==
    /\ pc = "call"
    /\ \E r \in {ExtractImagesFromItem(item, book_images)} :
          /\ events' = r.events
          /\ item_error' = r.error
          /\ written' = written \cup Saved(r.events)
    /\ pc' = "items"
    /\ UNCHANGED <<book_images, item, epubVars, countVars, ocrVars>>

NextItem == CallExtract \/ ReturnTrue

SpecItem == InitItem /\ [][NextItem]_vars

(***************************************************************************)
(* img2text.py: pathlib on paths, a path being the sequence of its names.  *)
(***************************************************************************)
INPUT_ROOT == << <<"b","o","o","k","_","i","m","a","g","e","s">> >>
OUTPUT_ROOT == << <<"t","e","x","t","_","o","u","t","p","u","t">> >>
TXT == <<".","t","x","t">>

\* line 66
image_extensions == {<<".","p","n","g">>, <<".","j","p","g">>,
                     <<".","j","p","e","g">>, <<".","t","i","f","f">>,
                     <<".","b","m","p">>}

\* PurePath.suffix of a name: from its last dot on, unless that dot is the
\* name's first or last character
NameSuffix(name) ==
    LET r == RFind(name, ".")
    IN IF 1 < r /\ r < Len(name) THEN SubSeq(name, r, Len(name)) ELSE <<>>

Suffix(path) == NameSuffix(path[Len(path)])

\* WithSuffix that appends the suffix to the whole name
MutWithSuffix(path, suffix) ==
    [path EXCEPT ![Len(path)] = path[Len(path)] \o suffix]

\* PurePath.with_suffix(suffix)
WithSuffix(path, suffix) ==
    LET name == path[Len(path)]
        old == NameSuffix(name)
    IN [path EXCEPT ![Len(path)] =
            SubSeq(name, 1, Len(name) - Len(old)) \o suffix]

\* PurePath.relative_to(root)
RelativeTo(path, root) == SubSeq(path, Len(root) + 1, Len(path))

\* lines 20-25
create_output_path(input_path, input_root, output_root) ==
    LET relative_path == RelativeTo(input_path, input_root)
    IN output_root \o WithSuffix(relative_path, TXT)

\* line 70
IsImage(path) == Lower(Suffix(path)) \in image_extensions

\* line 24: mkdir(parents=True, exist_ok=True) raises when a file is in the
\* place of one of the directories
MkdirRaises(path, files) ==
    \E k \in 1..(Len(path) - 1) : SubSeq(path, 1, k) \in files

\* lines 27-48: what process_image returns and what it leaves at output_path,
\* by the place where an exception is raised
Outcomes == {"ok", "readtext raises", "open raises", "write raises"}

process_image(outcome) ==
    CASE outcome = "readtext raises" -> [ok |-> FALSE, wrote |-> "nothing"]
      [] outcome = "open raises" -> [ok |-> FALSE, wrote |-> "nothing"]
      [] outcome = "write raises" -> [ok |-> FALSE, wrote |-> "partial"]
      [] outcome = "ok" -> [ok |-> TRUE, wrote |-> "complete"]

\* the text files after a call that wrote w at path
WriteText(files, path, w) ==
    IF w = "nothing" THEN files
    ELSE {t \in files : t.path # path} \cup {[path |-> path, content |-> w]}

\* The paths the OCR batch finds under input_root.
TreePaths ==
    {INPUT_ROOT \o rel : rel \in
        {<< <<"a",".","p","n","g">> >>,
         << <<"a",".","J","P","G">> >>,
         << <<"a",".","t","x","t">>, <<"b",".","p","n","g">> >>,
         << <<"n",".","t","x","t">> >>}}

Distinct(s) == \A i, j \in 1..Len(s) : i # j => s[i] # s[j]

Trees == {t \in SeqsUpTo(TreePaths, MaxTree) : Distinct(t)}

RECURSIVE Filter(_)
\* line 70: the list comprehension
Filter(paths) ==
    IF paths = <<>> THEN <<>>
    ELSE IF IsImage(Head(paths)) THEN <<Head(paths)>> \o Filter(Tail(paths))
    ELSE Filter(Tail(paths))

\* lines 50-69: main() up to the listing of input_root
InitOcr ==
    /\ pc = "ocr start"
    /\ tree \in Trees
    /\ image_list = <<>> /\ img_idx = 0 /\ texts = {}
    /\ wrote = "nothing" /\ image_path = NoPath /\ output_path = NoPath
    /\ EpubIdle /\ ItemIdle /\ CountIdle

\* lines 70-74
FindImages ==
    /\ pc = "ocr start"
    /\ image_list' = Filter(tree)
    /\ pc' = "ocr loop"
    /\ UNCHANGED <<tree, img_idx, texts, wrote, image_path, output_path,
                   itemVars, epubVars, countVars>>

\* lines 77-85, one image: create_output_path returns, process_image runs
\* and is counted
ProcessImage ==
    /\ pc = "ocr loop"
    /\ img_idx < Len(image_list)
    /\ \E p \in {create_output_path(image_list[img_idx + 1], INPUT_ROOT, OUTPUT_ROOT)} :
          /\ ~MkdirRaises(p, {t.path : t \in texts})
          /\ output_path' = p
          /\ \E outcome \in Outcomes :
                \E r \in {process_image(outcome)} :
                   /\ texts' = WriteText(texts, p, r.wrote)
                   /\ wrote' = r.wrote
                   /\ results' = Append(results, r.ok)
                   /\ \E t \in {Tally(r.ok, successful, failed)} :
                         successful' = t.s /\ failed' = t.f
    /\ image_path' = image_list[img_idx + 1]
    /\ img_idx' = img_idx + 1
    /\ UNCHANGED <<pc, tree, image_list, itemVars, epubVars>>

\* lines 77-79, one image: the mkdir of create_output_path raises, which
\* nothing in main() catches
CreateOutputPathRaises ==
    /\ pc = "ocr loop"
    /\ img_idx < Len(image_list)
    /\ MkdirRaises(create_output_path(image_list[img_idx + 1], INPUT_ROOT, OUTPUT_ROOT),
                   {t.path : t \in texts})
    /\ image_path' = image_list[img_idx + 1]
    /\ pc' = "ocr crashed"
    /\ UNCHANGED <<tree, image_list, img_idx, texts, wrote, output_path,
                   itemVars, epubVars, countVars>>

\* lines 87-91: the summary
OcrSummary ==
    /\ pc = "ocr loop"
    /\ img_idx = Len(image_list)
    /\ pc' = "ocr done"
    /\ UNCHANGED <<ocrVars, itemVars, epubVars, countVars>>

NextOcr ==
    \/ FindImages
    \/ ProcessImage
    \/ CreateOutputPathRaises
    \/ OcrSummary

(***************************************************************************)
(* Spec: a run of either batch.                                            *)
(***************************************************************************)
Init == InitEpub \/ InitOcr

Next == NextEpub \/ NextOcr

Spec == Init /\ [][Next]_vars

(***************************************************************************)
(* SpecPath: create_output_path on one image of the list.                  *)
(***************************************************************************)
StemChars == {"a", "."}
Tails == {<<".","p","n","g">>, <<".","P","N","G">>, <<".","j","p","e","g">>,
          <<".","t","i","f","f">>, <<".","t","x","t">>, <<>>}
DirNames == {<<"d">>, <<"d",".","t","x","t">>}

\* The paths under input_root: directories, then a file name.
AllPaths ==
    {INPUT_ROOT \o dirs \o <<stem \o tail>> :
        dirs \in SeqsUpTo(DirNames, MaxDepth),
        stem \in SeqsUpTo(StemChars, MaxStem),
        tail \in Tails}

\* lines 69-70 and 77: image_path is a path of image_list
InitPath ==
    /\ pc = "path"
    /\ image_path \in {p \in AllPaths : p[Len(p)] # <<>> /\ IsImage(p)}
    /\ output_path = NoPath
    /\ tree = <<>> /\ image_list = <<>> /\ img_idx = 0 /\ texts = {}
    /\ wrote = "nothing"
    /\ EpubIdle /\ ItemIdle /\ CountIdle

\* line 79
CreateOutputPath ==
    /\ pc = "path"
    /\ output_path' = create_output_path(image_path, INPUT_ROOT, OUTPUT_ROOT)
    /\ pc' = "path done"
    /\ UNCHANGED <<tree, image_list, img_idx, texts, wrote, image_path,
                   itemVars, epubVars, countVars>>

NextPath == CreateOutputPath

SpecPath == InitPath /\ [][NextPath]_vars

(***************************************************************************)
(* The claims.                                                             *)
(***************************************************************************)
IsPage(it) == it.media_type = XHTML_MEDIA_TYPE
IsImageItem(it) == it.media_type # None /\ StartsWith(it.media_type, IMAGE_PREFIX)
Called == pc # "call"
SaveEvents == {i \in 1..Len(events) : events[i].status # "scan"}
SavedEvents == {i \in 1..Len(events) : events[i].status = "saved"}
Count(seq, v) == Cardinality({i \in 1..Len(seq) : seq[i] = v})
EpubPc == pc \in {"loop", "items", "done", "crashed"}
OcrPc == pc \in {"ocr start", "ocr loop", "ocr done", "ocr crashed"}

\* C1: no call of extract_images_from_item saves a file for an item whose
\* media type is image/svg+xml, neither when the item is handed to it as a
\* direct image nor when a page's <img src> resolves to it.
C1_SvgNeverWritten ==
    Called =>
        \A i \in SavedEvents :
            book_images[events[i].item].media_type # SVG_MEDIA_TYPE

\* C2: when process_image returns False, whatever raised inside it, nothing
\* was written at the image's output path, failed went up by one and
\* successful did not move: the counters are those of the returned values.
C2_NothingWrittenOnFailure ==
    (pc \in {"ocr loop", "ocr done"} /\ img_idx > 0 /\ ~results[img_idx]) =>
        /\ wrote = "nothing"
        /\ failed = Count(results, FALSE)
        /\ successful = Count(results, TRUE)

\* the first image item of the table whose file name contains src, 0 if none
FirstMatch(table, src) ==
    IF \E j \in 1..Len(table) : Contains(table[j].file_name, src)
    THEN CHOOSE j \in 1..Len(table) :
            /\ Contains(table[j].file_name, src)
            /\ \A h \in 1..(j - 1) : ~Contains(table[h].file_name, src)
    ELSE 0

\* C3: for each <img> of a page, at most one image item is saved, and it is
\* the first item of the table whose file name contains the cleaned src.
C3_FirstMatchOnly ==
    (Called /\ IsPage(item)) =>
        \A k \in 1..Len(item.srcs) :
            LET mine == {i \in SavedEvents : events[i].img = k}
            IN /\ Cardinality(mine) <= 1
               /\ \A i \in mine :
                     events[i].item = FirstMatch(book_images, CleanSrc(item.srcs[k]))

\* C4: an EPUB that read_epub raises on is counted as failed exactly once,
\* the run goes on to every EPUB after it, and the summary comes only when
\* all have been processed.
C4_ContainerFailureIsolated ==
    EpubPc =>
        /\ pc # "crashed"
        /\ epub_idx <= n_epubs
        /\ Len(results) = epub_idx
        /\ \A i \in 1..epub_idx : results[i] = readable[i]
        /\ failed = Cardinality({i \in 1..epub_idx : ~readable[i]})
        /\ (pc = "done" => epub_idx = n_epubs)

C4_Witness ==
    /\ pc = "done" /\ n_epubs = 2
    /\ ~readable[1] /\ readable[2]
    /\ failed = 1 /\ successful = 1

\* the image items a page's <img> k resolves to: src given, not external,
\* file name containing the cleaned src, not SVG
Resolves(k, j) ==
    /\ item.srcs[k] # <<>>
    /\ ~StartsWith(item.srcs[k], HTTP)
    /\ Contains(book_images[j].file_name, CleanSrc(item.srcs[k]))
    /\ book_images[j].media_type # SVG_MEDIA_TYPE

\* C5: a save that fails does not end the call: every <img> of the page and
\* every image item it resolves to is still tried, every valid one is saved,
\* the call returns without reaching its outer handler, and process_epub
\* returns True, so the EPUB is counted as succeeded.
C5_SaveFailureDoesNotAbort ==
    Called =>
        /\ \A i \in 1..Len(events) : events[i].status # "raise"
        /\ (IsPage(item) \/ IsImageItem(item)) => ~item_error
        /\ IsPage(item) =>
              \A k \in 1..Len(item.srcs), j \in 1..Len(book_images) :
                  Resolves(k, j) =>
                      /\ \E i \in SaveEvents :
                            events[i].img = k /\ events[i].item = j
                      /\ book_images[j].valid =>
                            \E w \in written : w.id = j
        /\ (IsImageItem(item) /\ item.media_type # SVG_MEDIA_TYPE) =>
              Len(events) = 1
        /\ pc = "loop" =>
              successful = 1 /\ failed = 0 /\ results = <<TRUE>>

\* a failed save came before another <img> and before another matching item
C5_Witness ==
    /\ pc = "loop" /\ IsPage(item) /\ successful = 1
    /\ \E i, j, h \in 1..Len(events) :
          /\ i < j /\ j < h
          /\ events[i].status = "caught"
          /\ events[j].status = "saved" /\ events[j].img = events[i].img
          /\ events[h].status = "saved" /\ events[h].img > events[i].img

RECURSIVE WithoutExternal(_)
\* the srcs of a page without those that begin with http
WithoutExternal(srcs) ==
    IF srcs = <<>> THEN <<>>
    ELSE IF StartsWith(Head(srcs), HTTP) THEN WithoutExternal(Tail(srcs))
    ELSE <<Head(srcs)>> \o WithoutExternal(Tail(srcs))

\* C6: for an <img> whose src begins with http the page's processing scans
\* nothing and saves nothing, and the files the page saves are those it
\* would save without these <img> elements.
C6_ExternalSrcSkipped ==
    (Called /\ IsPage(item)) =>
        /\ \A i \in 1..Len(events) : ~StartsWith(item.srcs[events[i].img], HTTP)
        /\ Saved(events) =
              Saved(MarkupPage(WithoutExternal(item.srcs), book_images, 1))

\* a page with an external src that a valid image item's file name contains,
\* and another <img> that was resolved
C6_Witness ==
    /\ Called /\ IsPage(item)
    /\ \E k \in 1..Len(item.srcs), j \in 1..Len(book_images) :
          /\ StartsWith(item.srcs[k], HTTP)
          /\ Contains(book_images[j].file_name, CleanSrc(item.srcs[k]))
          /\ book_images[j].valid
          /\ book_images[j].media_type # SVG_MEDIA_TYPE
          /\ \A i \in SavedEvents : events[i].item # j
    /\ SavedEvents # {}

\* C7: a readable EPUB without image items gets its output subfolder, no
\* file is saved into it, and process_epub returns True for it.
C7_EmptyContainerSucceeds ==
    /\ (pc = "items" /\ book_images = <<>>) =>
          (epub_idx + 1) \in folders /\ written = {}
    /\ (pc = "loop" /\ epub_idx > 0 /\ readable[epub_idx] /\ book_images = <<>>) =>
          /\ epub_idx \in folders
          /\ written = {}
          /\ results[epub_idx]
          /\ successful = Cardinality({i \in 1..epub_idx : readable[i]})

\* an EPUB with a page or another item, and no image item, has returned
C7_Witness ==
    /\ pc = "loop" /\ epub_idx > 0 /\ readable[epub_idx]
    /\ book_images = <<>> /\ n_others > 0
    /\ epub_idx \in folders /\ successful > 0

EndsWith(s, t) == Len(s) >= Len(t) /\ SubSeq(s, Len(s) - Len(t) + 1, Len(s)) = t

\* C8: the output path is output_root, then the image's directories under
\* input_root, then a name ending in .txt; with .txt taken off and the
\* image's own extension put back, it is the image's path under input_root.
C8_OutputPathRoundTrip ==
    pc = "path done" =>
        LET rel == RelativeTo(image_path, INPUT_ROOT)
            out == RelativeTo(output_path, OUTPUT_ROOT)
            n == Len(rel)
        IN /\ StartsWith(output_path, OUTPUT_ROOT)
           /\ Len(out) = n
           /\ \A i \in 1..(n - 1) : out[i] = rel[i]
           /\ EndsWith(out[n], TXT)
           /\ SubSeq(out[n], 1, Len(out[n]) - Len(TXT)) \o Suffix(image_path) = rel[n]

\* an image below a directory, with a dot before its upper-case extension
C8_Witness ==
    /\ pc = "path done"
    /\ Len(image_path) > 2
    /\ Suffix(image_path) = <<".","P","N","G">>
    /\ image_path[Len(image_path)] = <<"a",".",".","P","N","G">>
    /\ output_path[Len(output_path)] = <<"a",".",".","t","x","t">>

\* C9 as claimed: a saved file is named by the item's id and an extension
\* that is one of jpeg, jpg, png, gif: the media-type suffix when that is one
\* of the four, jpg otherwise.
C9_Original ==
    Called =>
        \A i \in SavedEvents :
            LET suffix == SplitLast(book_images[events[i].item].media_type, "/")
            IN /\ events[i].name.id = events[i].item
               /\ events[i].name.ext \in ValidExtensions
               /\ events[i].name.ext =
                     IF suffix \in ValidExtensions THEN suffix ELSE JPG

\* C9, amended: a saved file is named by the item's id and an extension that,
\* in lower case, is one of jpeg, jpg, png, gif: the media-type suffix as
\* written when its lower case is one of the four, jpg otherwise.
C9_ExtensionUpToCase ==
    Called =>
        \A i \in SavedEvents :
            LET suffix == SplitLast(book_images[events[i].item].media_type, "/")
            IN /\ events[i].name.id = events[i].item
               /\ events[i].name \in written
               /\ Lower(events[i].name.ext) \in ValidExtensions
               /\ events[i].name.ext =
                     IF Lower(suffix) \in ValidExtensions THEN suffix ELSE JPG

\* a page resolved to an image/PNG item and to one of an unknown suffix
C9_Witness ==
    /\ Called /\ IsPage(item)
    /\ \E i, j \in SavedEvents :
          /\ events[i].name.ext = <<"P","N","G">>
          /\ events[j].name.ext = JPG

Processed == IF EpubPc THEN epub_idx ELSE img_idx
Discovered == IF EpubPc THEN n_epubs ELSE Len(image_list)

C10_Counts ==
    /\ successful + failed = Processed
    /\ Len(results) = Processed
    /\ successful = Count(results, TRUE)
    /\ failed = Count(results, FALSE)
    /\ pc \in {"done", "ocr done"} => successful + failed = Discovered

C10_Step ==
    /\ successful' >= successful
    /\ failed' >= failed
    /\ Processed' = Processed => successful' = successful /\ failed' = failed
    /\ Processed' # Processed =>
          /\ Processed' = Processed + 1
          /\ \/ successful' = successful + 1 /\ failed' = failed
             \/ successful' = successful /\ failed' = failed + 1

\* C10: in both batch loops successful + failed is the number of units
\* processed, each unit adds exactly 1 to exactly one of the counters, no
\* counter goes down, and at the summary the sum is the number of units found.
C10_CountersTally == [](C10_Counts) /\ [][C10_Step]_vars

C10_Witness ==
    /\ pc = "ocr done" /\ Len(image_list) = 2
    /\ successful = 1 /\ failed = 1
=============================================================================
